---- MODULE Spec2Model ----
(***************************************************************************)
(* Graceful restart of caddy (src/caddy/restart.go).  The parent process   *)
(* runs Restart step by step; the child process it forks runs the          *)
(* bootstrap protocol of the handoff (decode the payload, rebuild the      *)
(* listeners from the inherited descriptors, acknowledge on descriptor 3). *)
(* Strings and byte slices are sequences of small integers.  Go indexes    *)
(* from 0 and TLA+ from 1: position k of a Go slice s is s[k + 1].         *)
(***************************************************************************)
EXTENDS Integers, Sequences, FiniteSets, TLC

\* ---------------------------------------------------------------- bounds
MaxServers == 2
MaxBody == 1

\* The bind addresses the registries are drawn from, the bytes of the
\* configurations Restart is called with, and the bytes of the payloads the
\* codec is tried on.
Addrs == {<<1>>, <<1, 2>>}
ConfigBytes == {7}
Bytes == {0, 7}

\* ------------------------------------------------------------- constants
\* "4 fds come before any of the listeners"
ReservedFds == 4

\* os.Stdout and os.Stderr wrap descriptors 1 and 2.
StdoutFd == 1
StderrFd == 2

NoFd == 0 - 1

\* --------------------------------------------------------------- helpers
SeqsUpTo(S, n) == UNION {[1..k -> S] : k \in 0..n}

Prefixes(s) == {SubSeq(s, 1, k) : k \in 0..Len(s)}

Range(s) == {s[i] : i \in DOMAIN s}

Perms(S) == {p \in [1..Cardinality(S) -> S] : Range(p) = S}

\* A Go map as a function; make(map[string]uintptr) is the empty one.
EmptyMap == [a \in {} |-> 0]

MapPut(m, k, v) == [x \in DOMAIN m \cup {k} |-> IF x = k THEN v ELSE m[x]]

\* An open file description of the kernel, named by a descriptor.
File(kind, addr, id) == [kind |-> kind, addr |-> addr, id |-> id]

Plain(kind) == File(kind, <<>>, 0)

\* The descriptors a process gets from the kernel are the lowest free ones.
LowestFree(tbl) == CHOOSE n \in 0..(Cardinality(DOMAIN tbl)) :
                       /\ n \notin DOMAIN tbl
                       /\ \A m \in 0..(n - 1) : m \in DOMAIN tbl

Open(tbl, fd, file) == [x \in DOMAIN tbl \cup {fd} |-> IF x = fd THEN file ELSE tbl[x]]

Close(tbl, fd) == [x \in DOMAIN tbl \ {fd} |-> tbl[x]]

\* CaddyfileInput and its Body method.
CaddyfileInput(path, contents) == [isNil |-> FALSE, Filepath |-> path, Contents |-> contents]

NilInput == [isNil |-> TRUE, Filepath |-> <<>>, Contents |-> <<>>]

Body(c) == c.Contents

Inputs == {CaddyfileInput(<<1>>, b) : b \in SeqsUpTo(ConfigBytes, MaxBody)}

\* The registry: server i listens on Addr through descriptor fd.
Registry(addrs) == [i \in 1..Len(addrs) |-> [Addr |-> addrs[i], fd |-> 2 + i]]

ListenerFd(s) == s.fd

\* The descriptor table of a process that serves the registry srv.
RECURSIVE OpenListeners(_, _, _)
OpenListeners(tbl, srv, i) ==
    IF i > Len(srv) THEN tbl
    ELSE OpenListeners(Open(tbl, srv[i].fd, File("sock", srv[i].Addr, i)), srv, i + 1)

RECURSIVE CloseListeners(_, _, _)
CloseListeners(tbl, srv, i) ==
    IF i > Len(srv) THEN tbl
    ELSE CloseListeners(Close(tbl, srv[i].fd), srv, i + 1)

StdTable == (0 :> Plain("stdin")) @@ (1 :> Plain("stdout")) @@ (2 :> Plain("stderr"))

ServedAddrs(srv) == {srv[i].Addr : i \in DOMAIN srv}

\* ----------------------------------------------------------------- state
VARIABLES
    pc,            \* the line of Restart the parent is about to run
    goos,          \* runtime.GOOS
    osArgs,        \* os.Args
    env,           \* the parent's environment: the value of CADDY_RESTART
    newCaddyfile,  \* Restart's argument and local
    caddyfile,     \* the process's current configuration, under caddyfileMu
    caddyfileMu,   \* TRUE while Restart holds it
    serversMu,     \* TRUE while Restart holds it
    servers,       \* the registry of running servers
    fdTable,       \* the parent's open descriptors: descriptor -> file
    cdyfileGob,    \* the payload being prepared
    rpipe, wpipe,  \* the config pipe's ends (descriptors)
    sigrpipe, sigwpipe,  \* the signal pipe's ends
    fds,           \* the descriptor list for the child
    cfgPipe,       \* the bytes written to the config pipe
    sigPipe,       \* the bytes written to the signal pipe
    answer, readErr,     \* what ioutil.ReadAll returned
    ret,           \* what Restart returned ("" while it runs)
    steps,         \* the steps Restart has performed, in order
    stopRet,       \* what Stop returned ("" while it was not called)
    startRet,      \* what Start returned ("" while it was not called)
    closeErr,      \* TRUE once a Close of a pipe end returned an error
    slotReads,     \* Restart's reads of caddyfile: its value, and whether caddyfileMu was held
    childPc,       \* the child's position in its bootstrap
    childFiles,    \* the child's descriptor table: position k is childFiles[k + 1]
    childEnv,      \* CADDY_RESTART in the child's environment
    childGob,      \* the payload the child decoded
    childServing,  \* the addresses the child serves
    servers0,      \* the registry when Restart was called
    arg0,          \* the argument Restart was called with
    spawned        \* TRUE when this process was itself launched by a Restart

vars == <<pc, goos, osArgs, env, newCaddyfile, caddyfile, caddyfileMu, serversMu,
          servers, fdTable, cdyfileGob, rpipe, wpipe, sigrpipe, sigwpipe, fds,
          cfgPipe, sigPipe, answer, readErr, ret, steps, stopRet, startRet, closeErr,
          slotReads, childPc, childFiles, childEnv, childGob, childServing,
          servers0, arg0, spawned>>

parentVars == <<goos, osArgs, env, newCaddyfile, caddyfile, caddyfileMu, serversMu,
                servers, fdTable, cdyfileGob, rpipe, wpipe, sigrpipe, sigwpipe, fds,
                answer, readErr, ret, steps, stopRet, startRet, closeErr, slotReads,
                servers0, arg0, spawned>>

childVars == <<childPc, childFiles, childEnv, childGob, childServing>>

NoGob == [ListenerFds |-> EmptyMap, Caddyfile |-> <<>>]

\* The state in which Restart is called: a running process serving its
\* registry, called with a configuration or with nil.
Init ==
    /\ pc = "L28"
    /\ goos \in {"linux", "windows"}
    /\ osArgs \in {<<>>, <<"caddy">>}
    /\ spawned \in BOOLEAN
    /\ env = IF spawned THEN "true" ELSE ""
    /\ newCaddyfile \in Inputs \cup {NilInput}
    /\ arg0 = newCaddyfile
    /\ caddyfile \in Inputs
    /\ caddyfileMu = FALSE
    /\ serversMu = FALSE
    /\ \E addrs \in SeqsUpTo(Addrs, MaxServers) : servers = Registry(addrs)
    /\ fdTable = OpenListeners(StdTable, servers, 1)
    /\ cdyfileGob = NoGob
    /\ rpipe = NoFd /\ wpipe = NoFd /\ sigrpipe = NoFd /\ sigwpipe = NoFd
    /\ fds = <<>>
    /\ cfgPipe = <<>>
    /\ sigPipe = <<>>
    /\ answer = <<>> /\ readErr = FALSE
    /\ ret = ""
    /\ steps = <<>>
    /\ stopRet = ""
    /\ startRet = ""
    /\ closeErr = FALSE
    /\ slotReads = <<>>
    /\ childPc = "none"
    /\ childFiles = <<>>
    /\ childEnv = ""
    /\ childGob = NoGob
    /\ childServing = {}
    /\ servers0 = servers

Return(err) == pc' = "done" /\ ret' = err

\* ------------------------------------------------- the registry's Stop/Start
\* Stop stops every server of the registry; when it fails the servers may or
\* may not have been stopped.
Stop(ok) ==
    /\ steps' = Append(steps, "stop")
    /\ stopRet' = IF ok THEN "nil" ELSE "stopErr"
    /\ UNCHANGED <<startRet, closeErr, slotReads>>
    /\ \E left \in (IF ok THEN {<<>>} ELSE {<<>>, servers}) :
          /\ servers' = left
          /\ fdTable' = IF left = <<>> THEN CloseListeners(fdTable, servers, 1) ELSE fdTable

\* Start serves the configuration: the same bind addresses, on new sockets.
Start(ok) ==
    /\ steps' = Append(steps, "start")
    /\ startRet' = IF ok THEN "nil" ELSE "startErr"
    /\ UNCHANGED <<stopRet, closeErr, slotReads>>
    /\ IF ok
       THEN /\ servers' = servers0
            /\ fdTable' = OpenListeners(fdTable, servers0, 1)
       ELSE UNCHANGED <<servers, fdTable>>

\* ------------------------------------------------------------ Restart
\* if newCaddyfile == nil
CheckNil ==
    /\ pc = "L28"
    /\ pc' = IF newCaddyfile.isNil THEN "L29" ELSE "L34"
    /\ UNCHANGED <<parentVars, childVars, cfgPipe, sigPipe>>

\* The mutex not taken.
LockCaddyfileMu_NoLock ==
    /\ pc = "L29"
    /\ pc' = "L30"
    /\ UNCHANGED <<goos, osArgs, env, newCaddyfile, caddyfile, caddyfileMu, serversMu, servers,
                   fdTable, cdyfileGob, rpipe, wpipe, sigrpipe, sigwpipe, fds, cfgPipe, sigPipe,
                   answer, readErr, ret, steps, stopRet, startRet, closeErr, slotReads,
                   childVars, servers0, arg0, spawned>>

\* caddyfileMu.Lock()
LockCaddyfileMu ==
    /\ pc = "L29"
    /\ ~caddyfileMu
    /\ caddyfileMu' = TRUE
    /\ pc' = "L30"
    /\ UNCHANGED <<goos, osArgs, env, newCaddyfile, caddyfile, serversMu, servers, fdTable,
                   cdyfileGob, rpipe, wpipe, sigrpipe, sigwpipe, fds, cfgPipe, sigPipe,
                   answer, readErr, ret, steps, stopRet, startRet, closeErr, slotReads, childVars, servers0, arg0, spawned>>

\* newCaddyfile = caddyfile
ReadCaddyfile ==
    /\ pc = "L30"
    /\ newCaddyfile' = caddyfile
    /\ slotReads' = Append(slotReads, [value |-> caddyfile, locked |-> caddyfileMu])
    /\ pc' = "L31"
    /\ UNCHANGED <<goos, osArgs, env, caddyfile, caddyfileMu, serversMu, servers, fdTable,
                   cdyfileGob, rpipe, wpipe, sigrpipe, sigwpipe, fds, cfgPipe, sigPipe,
                   answer, readErr, ret, steps, stopRet, startRet, closeErr, childVars, servers0, arg0, spawned>>

\* caddyfileMu.Unlock()
UnlockCaddyfileMu ==
    /\ pc = "L31"
    /\ caddyfileMu' = FALSE
    /\ pc' = "L34"
    /\ UNCHANGED <<goos, osArgs, env, newCaddyfile, caddyfile, serversMu, servers, fdTable,
                   cdyfileGob, rpipe, wpipe, sigrpipe, sigwpipe, fds, cfgPipe, sigPipe,
                   answer, readErr, ret, steps, stopRet, startRet, closeErr, slotReads, childVars, servers0, arg0, spawned>>

\* if runtime.GOOS == "windows"
PlatformBranch ==
    /\ pc = "L34"
    /\ pc' = IF goos = "windows" THEN "L35" ELSE "L46"
    /\ UNCHANGED <<parentVars, childVars, cfgPipe, sigPipe>>

\* Stop's error not looked at.
WindowsStop_IgnoresError ==
    /\ pc = "L35"
    /\ \E ok \in BOOLEAN : Stop(ok)
    /\ pc' = "L39"
    /\ UNCHANGED <<goos, osArgs, env, newCaddyfile, caddyfile, caddyfileMu, serversMu,
                   cdyfileGob, rpipe, wpipe, sigrpipe, sigwpipe, fds, cfgPipe, sigPipe,
                   answer, readErr, ret, childVars, servers0, arg0, spawned>>

\* err := Stop(); if err != nil { return err }
WindowsStop ==
    /\ pc = "L35"
    /\ \E ok \in BOOLEAN :
          /\ Stop(ok)
          /\ IF ok THEN pc' = "L39" /\ ret' = ret ELSE Return("stopErr")
    /\ UNCHANGED <<goos, osArgs, env, newCaddyfile, caddyfile, caddyfileMu, serversMu,
                   cdyfileGob, rpipe, wpipe, sigrpipe, sigwpipe, fds, cfgPipe, sigPipe,
                   answer, readErr, childVars, servers0, arg0, spawned>>

\* err = Start(newCaddyfile); if err != nil { return err }; return nil
WindowsStart ==
    /\ pc = "L39"
    /\ \E ok \in BOOLEAN :
          /\ Start(ok)
          /\ Return(IF ok THEN "nil" ELSE "startErr")
    /\ UNCHANGED <<goos, osArgs, env, newCaddyfile, caddyfile, caddyfileMu, serversMu,
                   cdyfileGob, rpipe, wpipe, sigrpipe, sigwpipe, fds, cfgPipe, sigPipe,
                   answer, readErr, childVars, servers0, arg0, spawned>>

\* if len(os.Args) == 0 { os.Args = []string{""} }
FixArgs ==
    /\ pc = "L46"
    /\ osArgs' = IF Len(osArgs) = 0 THEN <<"">> ELSE osArgs
    /\ pc' = "L51"
    /\ UNCHANGED <<goos, env, newCaddyfile, caddyfile, caddyfileMu, serversMu, servers, fdTable,
                   cdyfileGob, rpipe, wpipe, sigrpipe, sigwpipe, fds, cfgPipe, sigPipe,
                   answer, readErr, ret, steps, stopRet, startRet, closeErr, slotReads, childVars, servers0, arg0, spawned>>

\* The flag set to a value isRestart does not recognise.
Setenv_OtherValue ==
    /\ pc = "L51"
    /\ env' = "1"
    /\ pc' = "L54"
    /\ UNCHANGED <<goos, osArgs, newCaddyfile, caddyfile, caddyfileMu, serversMu, servers, fdTable,
                   cdyfileGob, rpipe, wpipe, sigrpipe, sigwpipe, fds, cfgPipe, sigPipe,
                   answer, readErr, ret, steps, stopRet, startRet, closeErr, slotReads,
                   childVars, servers0, arg0, spawned>>

\* os.Setenv("CADDY_RESTART", "true")
Setenv ==
    /\ pc = "L51"
    /\ env' = "true"
    /\ pc' = "L54"
    /\ UNCHANGED <<goos, osArgs, newCaddyfile, caddyfile, caddyfileMu, serversMu, servers, fdTable,
                   cdyfileGob, rpipe, wpipe, sigrpipe, sigwpipe, fds, cfgPipe, sigPipe,
                   answer, readErr, ret, steps, stopRet, startRet, closeErr, slotReads, childVars, servers0, arg0, spawned>>

\* The body taken from the current configuration instead of the selected one.
PreparePayload_ReadsCurrent ==
    /\ pc = "L54"
    /\ cdyfileGob' = [ListenerFds |-> EmptyMap, Caddyfile |-> Body(caddyfile)]
    /\ pc' = "L60"
    /\ UNCHANGED <<goos, osArgs, env, newCaddyfile, caddyfile, caddyfileMu, serversMu, servers,
                   fdTable, rpipe, wpipe, sigrpipe, sigwpipe, fds, cfgPipe, sigPipe,
                   answer, readErr, ret, steps, stopRet, startRet, closeErr, slotReads,
                   childVars, servers0, arg0, spawned>>

\* cdyfileGob := caddyfileGob{ListenerFds: make(...), Caddyfile: newCaddyfile.Body()}
PreparePayload ==
    /\ pc = "L54"
    /\ cdyfileGob' = [ListenerFds |-> EmptyMap, Caddyfile |-> Body(newCaddyfile)]
    /\ pc' = "L60"
    /\ UNCHANGED <<goos, osArgs, env, newCaddyfile, caddyfile, caddyfileMu, serversMu, servers,
                   fdTable, rpipe, wpipe, sigrpipe, sigwpipe, fds, cfgPipe, sigPipe,
                   answer, readErr, ret, steps, stopRet, startRet, closeErr, slotReads, childVars, servers0, arg0, spawned>>

\* rpipe, wpipe, err := os.Pipe(); if err != nil { return err }
CreateConfigPipe ==
    /\ pc = "L60"
    /\ \/ /\ Return("pipeErr")
          /\ UNCHANGED <<fdTable, rpipe, wpipe>>
       \/ LET r == LowestFree(fdTable)
              t == Open(fdTable, r, Plain("cfg.r"))
              w == LowestFree(t)
          IN /\ rpipe' = r
             /\ wpipe' = w
             /\ fdTable' = Open(t, w, Plain("cfg.w"))
             /\ pc' = "L67"
             /\ ret' = ret
    /\ UNCHANGED <<goos, osArgs, env, newCaddyfile, caddyfile, caddyfileMu, serversMu, servers,
                   cdyfileGob, sigrpipe, sigwpipe, fds, cfgPipe, sigPipe,
                   answer, readErr, steps, stopRet, startRet, closeErr, slotReads, childVars, servers0, arg0, spawned>>

\* sigrpipe, sigwpipe, err := os.Pipe(); if err != nil { return err }
CreateSignalPipe ==
    /\ pc = "L67"
    /\ \/ /\ Return("pipeErr")
          /\ UNCHANGED <<fdTable, sigrpipe, sigwpipe>>
       \/ LET r == LowestFree(fdTable)
              t == Open(fdTable, r, Plain("sig.r"))
              w == LowestFree(t)
          IN /\ sigrpipe' = r
             /\ sigwpipe' = w
             /\ fdTable' = Open(t, w, Plain("sig.w"))
             /\ pc' = "L75"
             /\ ret' = ret
    /\ UNCHANGED <<goos, osArgs, env, newCaddyfile, caddyfile, caddyfileMu, serversMu, servers,
                   cdyfileGob, rpipe, wpipe, fds, cfgPipe, sigPipe,
                   answer, readErr, steps, stopRet, startRet, closeErr, slotReads, childVars, servers0, arg0, spawned>>

\* The two pipe ends handed over in each other's place.
FixedFds_Swapped(rp, so, se, sw) == <<sw, so, se, rp>>

\* fds := []uintptr{rpipe.Fd(), os.Stdout.Fd(), os.Stderr.Fd(), sigwpipe.Fd()}
FixedFds(rp, so, se, sw) == <<rp, so, se, sw>>

InitFds ==
    /\ pc = "L75"
    /\ fds' = FixedFds(rpipe, StdoutFd, StderrFd, sigwpipe)
    /\ pc' = "L78"
    /\ UNCHANGED <<goos, osArgs, env, newCaddyfile, caddyfile, caddyfileMu, serversMu, servers,
                   fdTable, cdyfileGob, rpipe, wpipe, sigrpipe, sigwpipe, cfgPipe, sigPipe,
                   answer, readErr, ret, steps, stopRet, startRet, closeErr, slotReads, childVars, servers0, arg0, spawned>>

\* serversMu.Lock()
LockServersMu ==
    /\ pc = "L78"
    /\ ~serversMu
    /\ serversMu' = TRUE
    /\ pc' = "L79"
    /\ UNCHANGED <<goos, osArgs, env, newCaddyfile, caddyfile, caddyfileMu, servers, fdTable,
                   cdyfileGob, rpipe, wpipe, sigrpipe, sigwpipe, fds, cfgPipe, sigPipe,
                   answer, readErr, ret, steps, stopRet, startRet, closeErr, slotReads, childVars, servers0, arg0, spawned>>

\* Every listener given the first listener's position.
ListenerIndex_Fixed(i) == ReservedFds

\* The position counted from the signal pipe's slot.
ListenerIndex_OffByOne(i) == ReservedFds + i - 1

\* uintptr(4 + i)
ListenerIndex(i) == ReservedFds + i

\* The loop stops one server early.
RECURSIVE RangeServers_SkipsLast(_, _, _, _)
RangeServers_SkipsLast(srv, i, f, m) ==
    IF i >= Len(srv) - 1 THEN [fds |-> f, ListenerFds |-> m]
    ELSE RangeServers_SkipsLast(srv, i + 1,
                      Append(f, srv[i + 1].fd),
                      MapPut(m, srv[i + 1].Addr, ReservedFds + i))

\* The position taken from the length of fds after the append.
RECURSIVE RangeServers_IndexAfterAppend(_, _, _, _)
RangeServers_IndexAfterAppend(srv, i, f, m) ==
    IF i >= Len(srv) THEN [fds |-> f, ListenerFds |-> m]
    ELSE RangeServers_IndexAfterAppend(srv, i + 1,
                      Append(f, srv[i + 1].fd),
                      MapPut(m, srv[i + 1].Addr, Len(f) + 1))

\* for i, s := range servers { fds = append(...); cdyfileGob.ListenerFds[s.Addr] = ... }
\* from the Go index i on; f and m are fds and ListenerFds so far.
RECURSIVE RangeServers(_, _, _, _)
RangeServers(srv, i, f, m) ==
    IF i >= Len(srv) THEN [fds |-> f, ListenerFds |-> m]
    ELSE RangeServers(srv, i + 1,
                      Append(f, ListenerFd(srv[i + 1])),
                      MapPut(m, srv[i + 1].Addr, ListenerIndex(i)))

AddListenerFds ==
    /\ pc = "L79"
    /\ LET r == RangeServers(servers, 0, fds, cdyfileGob.ListenerFds)
       IN /\ fds' = r.fds
          /\ cdyfileGob' = [cdyfileGob EXCEPT !.ListenerFds = r.ListenerFds]
    /\ pc' = "L83"
    /\ UNCHANGED <<goos, osArgs, env, newCaddyfile, caddyfile, caddyfileMu, serversMu, servers,
                   fdTable, rpipe, wpipe, sigrpipe, sigwpipe, cfgPipe, sigPipe,
                   answer, readErr, ret, steps, stopRet, startRet, closeErr, slotReads, childVars, servers0, arg0, spawned>>

\* The registry's lock kept.
UnlockServersMu_Forgotten ==
    /\ pc = "L83"
    /\ pc' = "L86"
    /\ UNCHANGED <<goos, osArgs, env, newCaddyfile, caddyfile, caddyfileMu, serversMu, servers,
                   fdTable, cdyfileGob, rpipe, wpipe, sigrpipe, sigwpipe, fds, cfgPipe, sigPipe,
                   answer, readErr, ret, steps, stopRet, startRet, closeErr, slotReads,
                   childVars, servers0, arg0, spawned>>

\* serversMu.Unlock()
UnlockServersMu ==
    /\ pc = "L83"
    /\ serversMu' = FALSE
    /\ pc' = "L86"
    /\ UNCHANGED <<goos, osArgs, env, newCaddyfile, caddyfile, caddyfileMu, servers, fdTable,
                   cdyfileGob, rpipe, wpipe, sigrpipe, sigwpipe, fds, cfgPipe, sigPipe,
                   answer, readErr, ret, steps, stopRet, startRet, closeErr, slotReads, childVars, servers0, arg0, spawned>>

\* The table the child gets from ProcAttr.Files: its descriptor k is the
\* parent's file behind files[k].
Inherit(tbl, files) == [k \in 1..Len(files) |-> tbl[files[k]]]

\* execSpec := &syscall.ProcAttr{Env: os.Environ(), Files: fds}
\* _, err = syscall.ForkExec(os.Args[0], os.Args, execSpec); if err != nil { return err }
ForkExec ==
    /\ pc = "L86"
    /\ \/ /\ Return("forkErr")
          /\ UNCHANGED <<steps, stopRet, startRet, closeErr, slotReads, childVars>>
       \/ /\ childPc' = "started"
          /\ childFiles' = Inherit(fdTable, fds)
          /\ childEnv' = env
          /\ steps' = Append(steps, "launch")
          /\ pc' = "L96"
          /\ UNCHANGED <<ret, stopRet, startRet, closeErr, slotReads, childGob, childServing>>
    /\ UNCHANGED <<goos, osArgs, env, newCaddyfile, caddyfile, caddyfileMu, serversMu, servers,
                   fdTable, cdyfileGob, rpipe, wpipe, sigrpipe, sigwpipe, fds, cfgPipe, sigPipe,
                   answer, readErr, servers0, arg0, spawned>>

\* ------------------------------------------------------ the payload's codec
\* encoding/gob's value encoding of a caddyfileGob, as a stream of unsigned
\* integers: a struct is its non-zero fields, each preceded by the distance
\* from the previous field number (starting at -1), closed by 0; a string or
\* byte slice is its length and its bytes; a map is its count and its
\* key/element pairs.  A non-nil map is sent even when empty; an empty byte
\* slice is a zero value and is not sent.  Go ranges over a map in no fixed
\* order: order is the order of this encoding.
EncodeBytes(b) == <<Len(b)>> \o b

RECURSIVE EncodeEntries(_, _, _)
EncodeEntries(m, order, i) ==
    IF i > Len(order) THEN <<>>
    ELSE EncodeBytes(order[i]) \o <<m[order[i]]>> \o EncodeEntries(m, order, i + 1)

EncodeMap(m, order) == <<Len(order)>> \o EncodeEntries(m, order, 1)

\* The configuration left out of the stream.
Encode_NoBody(g, order) == <<1>> \o EncodeMap(g.ListenerFds, order) \o <<0>>

\* gob.NewEncoder(wpipe).Encode(cdyfileGob)
Encode(g, order) ==
    <<1>> \o EncodeMap(g.ListenerFds, order)
    \o (IF Len(g.Caddyfile) > 0 THEN <<1>> \o EncodeBytes(g.Caddyfile) ELSE <<>>)
    \o <<0>>

\* The decoder of the child, into a zero caddyfileGob.  w is the stream, pos
\* the next position to read.
RECURSIVE DecodeEntries(_, _, _, _)
DecodeEntries(w, pos, n, m) ==
    IF n = 0 THEN [map |-> m, pos |-> pos]
    ELSE LET klen == w[pos]
             key  == SubSeq(w, pos + 1, pos + klen)
             elem == w[pos + klen + 1]
         IN DecodeEntries(w, pos + klen + 2, n - 1, MapPut(m, key, elem))

RECURSIVE DecodeFields(_, _, _, _)
DecodeFields(w, pos, field, g) ==
    IF pos > Len(w) \/ w[pos] = 0 THEN g
    ELSE LET f == field + w[pos]
         IN IF f = 0
            THEN LET r == DecodeEntries(w, pos + 2, w[pos + 1], EmptyMap)
                 IN DecodeFields(w, r.pos, f, [g EXCEPT !.ListenerFds = r.map])
            ELSE LET n == w[pos + 1]
                 IN DecodeFields(w, pos + 2 + n, f,
                                 [g EXCEPT !.Caddyfile = SubSeq(w, pos + 2, pos + 1 + n)])

Decode(w) == DecodeFields(w, 1, 0 - 1, NoGob)

\* The pipes' write ends closed before the error is returned.
EncodePayload_ClosesOnError ==
    /\ pc = "L96"
    /\ \/ /\ Return("encodeErr")
          /\ fdTable' = Close(Close(fdTable, wpipe), sigwpipe)
          /\ UNCHANGED <<cfgPipe, steps, stopRet, startRet, closeErr, slotReads>>
       \/ /\ \E order \in Perms(DOMAIN cdyfileGob.ListenerFds) :
                cfgPipe' = cfgPipe \o Encode(cdyfileGob, order)
          /\ steps' = Append(steps, "write")
          /\ pc' = "L100"
          /\ UNCHANGED <<fdTable, ret, stopRet, startRet, closeErr, slotReads>>
    /\ UNCHANGED <<goos, osArgs, env, newCaddyfile, caddyfile, caddyfileMu, serversMu, servers,
                   cdyfileGob, rpipe, wpipe, sigrpipe, sigwpipe, fds, sigPipe,
                   answer, readErr, childVars, servers0, arg0, spawned>>

\* err = gob.NewEncoder(wpipe).Encode(cdyfileGob); if err != nil { return err }
EncodePayload ==
    /\ pc = "L96"
    /\ \/ /\ Return("encodeErr")
          /\ UNCHANGED <<cfgPipe, steps, stopRet, startRet, closeErr, slotReads>>
       \/ /\ \E order \in Perms(DOMAIN cdyfileGob.ListenerFds) :
                cfgPipe' = cfgPipe \o Encode(cdyfileGob, order)
          /\ steps' = Append(steps, "write")
          /\ pc' = "L100"
          /\ UNCHANGED <<ret, stopRet, startRet, closeErr, slotReads>>
    /\ UNCHANGED <<goos, osArgs, env, newCaddyfile, caddyfile, caddyfileMu, serversMu, servers,
                   fdTable, cdyfileGob, rpipe, wpipe, sigrpipe, sigwpipe, fds, sigPipe,
                   answer, readErr, childVars, servers0, arg0, spawned>>

\* wpipe.Close(): the descriptor is released whether or not Close reports
\* an error; the error is not looked at.
CloseWpipe ==
    /\ pc = "L100"
    /\ fdTable' = Close(fdTable, wpipe)
    /\ \E failed \in BOOLEAN : closeErr' = (closeErr \/ failed)
    /\ pc' = "L103"
    /\ UNCHANGED <<goos, osArgs, env, newCaddyfile, caddyfile, caddyfileMu, serversMu, servers,
                   cdyfileGob, rpipe, wpipe, sigrpipe, sigwpipe, fds, cfgPipe, sigPipe,
                   answer, readErr, ret, steps, stopRet, startRet, slotReads, childVars, servers0, arg0, spawned>>

\* The parent's copy of the signal pipe's write end left open.
CloseSigwpipe_Skipped ==
    /\ pc = "L103"
    /\ pc' = "L104"
    /\ UNCHANGED <<goos, osArgs, env, newCaddyfile, caddyfile, caddyfileMu, serversMu, servers,
                   fdTable, cdyfileGob, rpipe, wpipe, sigrpipe, sigwpipe, fds, cfgPipe, sigPipe,
                   answer, readErr, ret, steps, stopRet, startRet, closeErr, slotReads,
                   childVars, servers0, arg0, spawned>>

\* sigwpipe.Close()
CloseSigwpipe ==
    /\ pc = "L103"
    /\ fdTable' = Close(fdTable, sigwpipe)
    /\ \E failed \in BOOLEAN : closeErr' = (closeErr \/ failed)
    /\ pc' = "L104"
    /\ UNCHANGED <<goos, osArgs, env, newCaddyfile, caddyfile, caddyfileMu, serversMu, servers,
                   cdyfileGob, rpipe, wpipe, sigrpipe, sigwpipe, fds, cfgPipe, sigPipe,
                   answer, readErr, ret, steps, stopRet, startRet, slotReads, childVars, servers0, arg0, spawned>>

\* Some process still holds a write end of the signal pipe.
SigWriters ==
    \/ \E fd \in DOMAIN fdTable : fdTable[fd].kind = "sig.w"
    \/ \E k \in DOMAIN childFiles : childFiles[k].kind = "sig.w"

\* answer, err := ioutil.ReadAll(sigrpipe): everything written, once every
\* write end is closed; or an error, with what was read until then.
ReadHandshake ==
    /\ pc = "L104"
    /\ \/ /\ ~SigWriters
          /\ answer' = sigPipe
          /\ readErr' = FALSE
       \/ /\ answer' \in Prefixes(sigPipe)
          /\ readErr' = TRUE
    /\ steps' = Append(steps, "read")
    /\ pc' = "L105"
    /\ UNCHANGED <<stopRet, startRet, closeErr, slotReads, goos, osArgs, env, newCaddyfile, caddyfile, caddyfileMu, serversMu, servers,
                   fdTable, cdyfileGob, rpipe, wpipe, sigrpipe, sigwpipe, fds, cfgPipe, sigPipe,
                   ret, childVars, servers0, arg0, spawned>>

\* Only the error looked at.
ChildFailedToAnswer_ErrOnly(ans, err) == err

\* The two conditions joined by && instead of ||.
ChildFailedToAnswer_And(ans, err) == err /\ Len(ans) = 0

\* err != nil || len(answer) == 0
ChildFailedToAnswer(ans, err) == err \/ Len(ans) = 0

\* The failure logged and nil returned.
CheckAnswer_ReturnsNil ==
    /\ pc = "L105"
    /\ IF ChildFailedToAnswer(answer, readErr)
       THEN Return("nil")
       ELSE pc' = "L111" /\ ret' = ret
    /\ UNCHANGED <<goos, osArgs, env, newCaddyfile, caddyfile, caddyfileMu, serversMu, servers,
                   fdTable, cdyfileGob, rpipe, wpipe, sigrpipe, sigwpipe, fds, cfgPipe, sigPipe,
                   answer, readErr, steps, stopRet, startRet, closeErr, slotReads, childVars, servers0, arg0, spawned>>

\* if err != nil || len(answer) == 0 { log.Println(...); return incompleteRestartErr }
CheckAnswer ==
    /\ pc = "L105"
    /\ IF ChildFailedToAnswer(answer, readErr)
       THEN Return("incompleteRestartErr")
       ELSE pc' = "L111" /\ ret' = ret
    /\ UNCHANGED <<goos, osArgs, env, newCaddyfile, caddyfile, caddyfileMu, serversMu, servers,
                   fdTable, cdyfileGob, rpipe, wpipe, sigrpipe, sigwpipe, fds, cfgPipe, sigPipe,
                   answer, readErr, steps, stopRet, startRet, closeErr, slotReads, childVars, servers0, arg0, spawned>>

\* Stop's error dropped.
StopServers_DropsError ==
    /\ pc = "L111"
    /\ \E ok \in BOOLEAN :
          /\ Stop(ok)
          /\ Return("nil")
    /\ UNCHANGED <<goos, osArgs, env, newCaddyfile, caddyfile, caddyfileMu, serversMu,
                   cdyfileGob, rpipe, wpipe, sigrpipe, sigwpipe, fds, cfgPipe, sigPipe,
                   answer, readErr, childVars, servers0, arg0, spawned>>

\* return Stop()
StopServers ==
    /\ pc = "L111"
    /\ \E ok \in BOOLEAN :
          /\ Stop(ok)
          /\ Return(IF ok THEN "nil" ELSE "stopErr")
    /\ UNCHANGED <<goos, osArgs, env, newCaddyfile, caddyfile, caddyfileMu, serversMu,
                   cdyfileGob, rpipe, wpipe, sigrpipe, sigwpipe, fds, cfgPipe, sigPipe,
                   answer, readErr, childVars, servers0, arg0, spawned>>

\* --------------------------------------------- the rest of the process
\* Another goroutine replaces the current configuration, under caddyfileMu.
ReplaceCaddyfile ==
    /\ ~caddyfileMu
    /\ \E c \in Inputs \ {caddyfile} : caddyfile' = c
    /\ UNCHANGED <<pc, goos, osArgs, env, newCaddyfile, caddyfileMu, serversMu, servers, fdTable,
                   cdyfileGob, rpipe, wpipe, sigrpipe, sigwpipe, fds, cfgPipe, sigPipe,
                   answer, readErr, ret, steps, stopRet, startRet, closeErr, slotReads,
                   childVars, servers0, arg0, spawned>>

\* ------------------------------------------------------------ the child
\* return os.Getenv("CADDY_RESTART") == "true"
isRestart(e) == e = "true"

\* The acknowledgment the child writes: "OK".
Ack == <<79, 75>>

\* The child reads the payload from its standard input.
ChildDecode ==
    /\ childPc = "started"
    /\ isRestart(childEnv)
    /\ childFiles[1].kind = "cfg.r"
    /\ cfgPipe # <<>>
    /\ childGob' = Decode(cfgPipe)
    /\ childPc' = "decoded"
    /\ UNCHANGED <<pc, parentVars, cfgPipe, sigPipe, childFiles, childEnv, childServing>>

\* Position k of the child's table is a listening socket.
IsSocket(files, k) == k + 1 \in DOMAIN files /\ files[k + 1].kind = "sock"

\* The child rebuilds one listener per entry of the mapping from the
\* descriptor at the entry's position, and serves the socket's address; when
\* a position holds no socket it gives up: it exits, which closes descriptor 3.
ChildListen ==
    /\ childPc = "decoded"
    /\ LET m == childGob.ListenerFds
       IN IF \A a \in DOMAIN m : IsSocket(childFiles, m[a])
          THEN /\ childServing' = {childFiles[m[a] + 1].addr : a \in DOMAIN m}
               /\ childPc' = "serving"
               /\ UNCHANGED childFiles
          ELSE /\ childServing' = {}
               /\ childPc' = "failed"
               /\ childFiles' = <<>>
    /\ UNCHANGED <<pc, parentVars, cfgPipe, sigPipe, childEnv, childGob>>

\* Once it serves, the child writes its acknowledgment to descriptor 3.
ChildAck ==
    /\ childPc = "serving"
    /\ sigPipe' = IF childFiles[4].kind = "sig.w" THEN sigPipe \o Ack ELSE sigPipe
    /\ childPc' = "acked"
    /\ UNCHANGED <<pc, parentVars, cfgPipe, childFiles, childEnv, childGob, childServing>>

\* ... and closes descriptor 3.
ChildClose3 ==
    /\ childPc = "acked"
    /\ childFiles' = [childFiles EXCEPT ![4] = Plain("closed")]
    /\ childPc' = "ready"
    /\ UNCHANGED <<pc, parentVars, cfgPipe, sigPipe, childEnv, childGob, childServing>>

\* The child fails before it acknowledged: it exits without writing.
ChildFail ==
    /\ childPc \in {"started", "decoded", "serving"}
    /\ childPc' = "failed"
    /\ childFiles' = <<>>
    /\ childServing' = {}
    /\ UNCHANGED <<pc, parentVars, cfgPipe, sigPipe, childEnv, childGob>>

\* ------------------------------------------------------- specification
Next ==
    \/ CheckNil \/ LockCaddyfileMu \/ ReadCaddyfile \/ UnlockCaddyfileMu
    \/ PlatformBranch \/ WindowsStop \/ WindowsStart
    \/ FixArgs \/ Setenv \/ PreparePayload
    \/ CreateConfigPipe \/ CreateSignalPipe
    \/ InitFds \/ LockServersMu \/ AddListenerFds \/ UnlockServersMu
    \/ ForkExec \/ EncodePayload \/ CloseWpipe \/ CloseSigwpipe
    \/ ReadHandshake \/ CheckAnswer \/ StopServers
    \/ ReplaceCaddyfile
    \/ ChildDecode \/ ChildListen \/ ChildAck \/ ChildClose3 \/ ChildFail

Spec == Init /\ [][Next]_vars

\* The parent's goroutine keeps running Restart: every step that is enabled is
\* eventually taken.  The read of the signal pipe is a blocking call: it is
\* only certain to return once the pipe reaches end-of-stream.
ParentStep ==
    \/ CheckNil \/ LockCaddyfileMu \/ ReadCaddyfile \/ UnlockCaddyfileMu
    \/ PlatformBranch \/ WindowsStop \/ WindowsStart
    \/ FixArgs \/ Setenv \/ PreparePayload
    \/ CreateConfigPipe \/ CreateSignalPipe
    \/ InitFds \/ LockServersMu \/ AddListenerFds \/ UnlockServersMu
    \/ ForkExec \/ EncodePayload \/ CloseWpipe \/ CloseSigwpipe
    \/ (ReadHandshake /\ ~readErr')
    \/ CheckAnswer \/ StopServers

LiveSpec == Init /\ [][Next]_vars /\ WF_vars(ParentStep)

\* A harness for the payload's codec: the parent is about to write a payload
\* drawn from every mapping and configuration within the bounds, and the
\* launched child is about to read it.
AnyGobs ==
    {[ListenerFds |-> m, Caddyfile |-> b] :
        m \in UNION {[S -> 0..(ReservedFds + MaxServers)] : S \in SUBSET Addrs},
        b \in SeqsUpTo(Bytes, MaxBody)}

CodecInit ==
    /\ pc = "L96"
    /\ goos = "linux"
    /\ osArgs = <<"caddy">>
    /\ env = "true"
    /\ cdyfileGob \in AnyGobs
    /\ newCaddyfile = CaddyfileInput(<<1>>, cdyfileGob.Caddyfile)
    /\ caddyfile = newCaddyfile
    /\ caddyfileMu = FALSE
    /\ serversMu = FALSE
    /\ servers = <<>>
    /\ rpipe = 3 /\ wpipe = 4 /\ sigrpipe = 5 /\ sigwpipe = 6
    /\ fdTable = StdTable @@ (3 :> Plain("cfg.r")) @@ (4 :> Plain("cfg.w"))
                          @@ (5 :> Plain("sig.r")) @@ (6 :> Plain("sig.w"))
    /\ fds = FixedFds(rpipe, StdoutFd, StderrFd, sigwpipe)
    /\ cfgPipe = <<>>
    /\ sigPipe = <<>>
    /\ answer = <<>> /\ readErr = FALSE
    /\ ret = ""
    /\ steps = <<"launch">>
    /\ stopRet = ""
    /\ startRet = ""
    /\ closeErr = FALSE
    /\ slotReads = <<>>
    /\ arg0 = newCaddyfile
    /\ spawned = FALSE
    /\ childPc = "started"
    /\ childFiles = Inherit(fdTable, fds)
    /\ childEnv = env
    /\ childGob = NoGob
    /\ childServing = {}
    /\ servers0 = servers

CodecNext == EncodePayload \/ ChildDecode

CodecSpec == CodecInit /\ [][CodecNext]_vars

\* ---------------------------------------------------------------- claims
Posix == goos # "windows"

Did(step) == \E i \in DOMAIN steps : steps[i] = step

StopCount == Cardinality({i \in DOMAIN steps : steps[i] = "stop"})

\* The registry and its listening sockets are as they were when Restart was called.
ParentUntouched ==
    /\ servers = servers0
    /\ \A i \in DOMAIN servers0 :
          /\ servers0[i].fd \in DOMAIN fdTable
          /\ fdTable[servers0[i].fd] = File("sock", servers0[i].Addr, i)

PipeKinds == {"cfg.r", "cfg.w", "sig.r", "sig.w"}

Offsets(m) == {m[a] : a \in DOMAIN m}

DistinctAddrs(srv) == \A i, j \in DOMAIN srv : srv[i].Addr = srv[j].Addr => i = j

\* C1: on the POSIX path the steps of Restart occur in the order launch, payload
\* write, handshake read, stop; the servers are stopped, and Stop is called,
\* only once a non-empty handshake has been read from the signal pipe.
C1_StepOrder ==
    Posix =>
        /\ steps \in Prefixes(<<"launch", "write", "read", "stop">>)
        /\ (Did("stop") \/ servers # servers0) => (Did("read") /\ Len(answer) > 0)

C1_Witness ==
    /\ Posix
    /\ steps = <<"launch", "write", "read", "stop">>
    /\ answer = Ack

\* C2: when Restart returns on the POSIX path after a pipe could not be created,
\* the process could not be created, or the handshake was empty or errored,
\* Stop was not called and the registry and its listeners are as before the call.
C2_FailureLeavesListeners ==
    (/\ Posix
     /\ pc = "done"
     /\ \/ ret \in {"pipeErr", "forkErr"}
        \/ Did("read") /\ (readErr \/ Len(answer) = 0))
    => (~Did("stop") /\ ParentUntouched)

C2_Witness ==
    /\ Posix
    /\ pc = "done"
    /\ Did("read") /\ readErr /\ answer = Ack
    /\ Len(servers0) = 2
    /\ ParentUntouched

\* C3: on the POSIX path, with a child that follows the bootstrap protocol,
\* every address registered when Restart was called is served in every state by
\* the parent or by the child.
C3_AlwaysServed ==
    Posix => \A a \in ServedAddrs(servers0) :
                 a \in ServedAddrs(servers) \/ a \in childServing

C3_Witness ==
    /\ Posix
    /\ pc = "done"
    /\ servers = <<>>
    /\ Cardinality(ServedAddrs(servers0)) = 2
    /\ childServing = ServedAddrs(servers0)

\* C4: when the child was launched and the read of the signal pipe failed or
\* ended with zero bytes, Restart returns incompleteRestartErr, Stop is not
\* called and the parent's servers keep serving all their addresses.
C4_IncompleteRestart ==
    (pc = "done" /\ Did("read") /\ (readErr \/ Len(answer) = 0))
    => /\ ret = "incompleteRestartErr"
       /\ ~Did("stop")
       /\ ServedAddrs(servers) = ServedAddrs(servers0)
       /\ Len(servers) = Len(servers0)

C4_Witness ==
    /\ pc = "done"
    /\ ret = "incompleteRestartErr"
    /\ childPc = "failed"
    /\ ~readErr /\ answer = <<>>
    /\ Len(servers) = 2

HandshakeOk == Did("read") /\ ~readErr /\ Len(answer) > 0

\* C5, as claimed: when the read of the signal pipe completed without error
\* with non-empty content, Restart stops the servers exactly once and returns
\* success.
C5_ReturnsSuccess ==
    (pc = "done" /\ HandshakeOk) => (StopCount = 1 /\ ret = "nil")

\* C5, amended: when the read of the signal pipe completed without error with
\* non-empty content, Restart calls Stop exactly once and returns what Stop
\* returned: success when Stop succeeded (and then no server is left running),
\* Stop's error otherwise.
C5_ReturnsStopResult ==
    (pc = "done" /\ HandshakeOk)
    => /\ StopCount = 1
       /\ ret = stopRet
       /\ ret \in {"nil", "stopErr"}
       /\ (ret = "nil" => servers = <<>>)

C5_Witness ==
    /\ pc = "done"
    /\ HandshakeOk
    /\ ret = "nil"
    /\ Len(servers0) > 0
    /\ servers = <<>>
    /\ childPc = "ready"

Snapshot == pc \in {"L83", "L86"}

\* C6, as claimed: for a registry of N listeners with any addresses the
\* descriptor list has length N + 4 and the offsets of the mapping are exactly
\* 4 .. 3 + N, N distinct ones.
C6_OffsetsExact ==
    Snapshot =>
        /\ Len(fds) = Len(servers) + ReservedFds
        /\ Offsets(cdyfileGob.ListenerFds) = ReservedFds..(ReservedFds + Len(servers) - 1)
        /\ Cardinality(DOMAIN cdyfileGob.ListenerFds) = Len(servers)

\* C6, amended: for a registry of N listeners the descriptor list has length
\* N + 4; the mapping has one offset per distinct address, no offset is shared
\* by two addresses and every offset lies in 4 .. 3 + N; when the N addresses
\* are pairwise distinct the offsets are exactly 4 .. 3 + N.
C6_OffsetsPerAddress ==
    Snapshot =>
        LET m == cdyfileGob.ListenerFds
            N == Len(servers)
        IN /\ Len(fds) = N + ReservedFds
           /\ DOMAIN m = ServedAddrs(servers)
           /\ Offsets(m) \subseteq ReservedFds..(ReservedFds + N - 1)
           /\ \A a, b \in DOMAIN m : m[a] = m[b] => a = b
           /\ DistinctAddrs(servers) => Offsets(m) = ReservedFds..(ReservedFds + N - 1)

C6_Witness ==
    /\ pc = "L83"
    /\ Len(servers) = 2
    /\ DistinctAddrs(servers)
    /\ Offsets(cdyfileGob.ListenerFds) = {4, 5}

\* C7: in the descriptor list passed to the launcher positions 0 to 3 are the
\* read end of the config pipe, standard output, standard error and the write
\* end of the signal pipe; the listeners' descriptors follow from position 4 in
\* registry order and none of them is in positions 0 to 3.  The launched child
\* finds these files at these positions.
C7_FixedPositions ==
    /\ pc = "L86" =>
          /\ Len(fds) = ReservedFds + Len(servers)
          /\ fds[1] = rpipe /\ fdTable[fds[1]] = Plain("cfg.r")
          /\ fdTable[fds[2]] = Plain("stdout")
          /\ fdTable[fds[3]] = Plain("stderr")
          /\ fds[4] = sigwpipe /\ fdTable[fds[4]] = Plain("sig.w")
          /\ \A i \in DOMAIN servers :
                /\ fds[ReservedFds + i] = ListenerFd(servers[i])
                /\ fdTable[fds[ReservedFds + i]].kind = "sock"
                /\ \A k \in 1..ReservedFds : fds[k] # ListenerFd(servers[i])
    /\ childPc = "started" =>
          /\ <<childFiles[1].kind, childFiles[2].kind, childFiles[3].kind, childFiles[4].kind>>
                = <<"cfg.r", "stdout", "stderr", "sig.w">>
          /\ \A k \in DOMAIN childFiles : k > ReservedFds <=> childFiles[k].kind = "sock"

C7_Witness ==
    /\ pc = "L86"
    /\ Len(servers) = 2
    /\ Len(fds) = 6

\* C8: when the child is launched, for every address a of the mapping with
\* index k, position k of the list passed to the child holds the listener
\* descriptor of a registered server whose address is a, and position k of the
\* child's table is that server's socket.
C8_MappingMatchesTable ==
    childPc = "started" =>
        \A a \in DOMAIN cdyfileGob.ListenerFds :
            LET k == cdyfileGob.ListenerFds[a]
            IN /\ k + 1 \in DOMAIN fds
               /\ \E i \in DOMAIN servers0 :
                     /\ servers0[i].Addr = a
                     /\ fds[k + 1] = ListenerFd(servers0[i])
                     /\ childFiles[k + 1] = File("sock", a, i)

C8_Witness ==
    /\ childPc = "started"
    /\ pc = "L96"
    /\ Cardinality(DOMAIN cdyfileGob.ListenerFds) = 2

\* C9: when the process could not be created Restart returns the launch error,
\* the parent's servers are untouched and no end of the config pipe or of the
\* signal pipe is left open in the parent.
C9_NoPipeLeftOpen ==
    (pc = "done" /\ ret = "forkErr")
    => /\ ParentUntouched
       /\ \A fd \in DOMAIN fdTable : fdTable[fd].kind \notin PipeKinds

\* C10: decoding the encoding of a payload yields the payload's mapping and
\* configuration bytes, for every mapping and every byte sequence, the empty
\* ones included.
C10_RoundTrip ==
    /\ cfgPipe # <<>> => Decode(cfgPipe) = cdyfileGob
    /\ childPc = "decoded" => childGob = cdyfileGob

C10_Witness ==
    /\ childPc = "decoded"
    /\ Cardinality(DOMAIN childGob.ListenerFds) = 2
    /\ childGob.Caddyfile # <<>>
    /\ childGob = cdyfileGob

\* C11: on a fallback platform Restart calls Stop and then Start, in that
\* order; when Stop fails its error is returned and Start is not called; when
\* Start fails its error is returned, and after a successful Stop and a failed
\* Start no server is running.
C11_StopThenStart ==
    goos = "windows" =>
        /\ steps \in Prefixes(<<"stop", "start">>)
        /\ stopRet = "stopErr" => (pc = "done" /\ ret = "stopErr" /\ ~Did("start"))
        /\ startRet = "startErr" =>
              (pc = "done" /\ ret = "startErr" /\ stopRet = "nil" /\ servers = <<>>)
        /\ (pc = "done" /\ ret = "nil") => (stopRet = "nil" /\ startRet = "nil")

C11_Witness ==
    /\ goos = "windows"
    /\ pc = "done"
    /\ steps = <<"stop", "start">>
    /\ ret = "startErr"
    /\ Len(servers0) > 0
    /\ servers = <<>>

BeforeSetenv == {"L28", "L29", "L30", "L31", "L34", "L46", "L51"}

\* C12: on the POSIX path the restart flag is set in the parent before the
\* child is launched, the launched child's environment holds the flag, and in
\* every later state of Restart, whatever its outcome, the flag is still set.
C12_FlagSetAndKept ==
    /\ (Posix /\ pc \notin BeforeSetenv) => isRestart(env)
    /\ childPc # "none" => (isRestart(childEnv) /\ isRestart(env))
    /\ spawned => isRestart(env)

C12_Witness ==
    /\ Posix
    /\ ~spawned
    /\ pc = "done"
    /\ ret = "incompleteRestartErr"
    /\ isRestart(childEnv)
    /\ isRestart(env)

\* C13: after a successful handshake the addresses of the mapping sent to the
\* child are the addresses the parent was listening on, each bound to an
\* inherited socket of that address, and the child serves exactly them.
C13_SameAddresses ==
    (Posix /\ HandshakeOk) =>
        LET m == cdyfileGob.ListenerFds
        IN /\ DOMAIN m = ServedAddrs(servers0)
           /\ Decode(cfgPipe).ListenerFds = m
           /\ \A a \in DOMAIN m : /\ IsSocket(childFiles, m[a])
                                  /\ childFiles[m[a] + 1].addr = a
           /\ childServing = ServedAddrs(servers0)

C13_Witness ==
    /\ Posix
    /\ HandshakeOk
    /\ pc = "done"
    /\ ret = "nil"
    /\ Len(servers0) = 2
    /\ DOMAIN childGob.ListenerFds = Addrs

BlockingSteps == {"L35", "L39", "L86", "L96", "L100", "L103", "L104", "L105", "L111"}

\* C14: Restart holds the configuration mutex only while it reads the current
\* configuration and the registry's lock only while it builds the descriptor
\* list and the mapping; it holds neither while it creates the child, writes
\* the payload, reads the signal pipe or stops or starts servers.
C14_LocksHeldBriefly ==
    /\ caddyfileMu => pc \in {"L30", "L31"}
    /\ serversMu => pc \in {"L79", "L83"}
    /\ pc \in BlockingSteps => (~caddyfileMu /\ ~serversMu)

C14_Witness ==
    /\ pc = "L104"
    /\ arg0.isNil
    /\ Len(servers0) = 2
    /\ ~caddyfileMu /\ ~serversMu

ConfigChosen == pc \notin {"L28", "L29", "L30"}

C16_State ==
    /\ ~ConfigChosen => slotReads = <<>>
    /\ ConfigChosen =>
          IF arg0.isNil
          THEN /\ Len(slotReads) = 1
               /\ slotReads[1].locked
               /\ newCaddyfile = slotReads[1].value
          ELSE /\ slotReads = <<>>
               /\ newCaddyfile = arg0

\* C16: called with nil, Restart uses the current configuration, which it
\* reads once, holding the configuration mutex; called with a configuration,
\* it uses that argument and does not read the current configuration.  No
\* step of Restart modifies the current configuration.
C16_ConfigSelected ==
    /\ []C16_State
    /\ [][pc' # pc => caddyfile' = caddyfile]_vars

C16_Witness ==
    /\ pc = "L34"
    /\ arg0.isNil
    /\ Len(slotReads) = 1
    /\ slotReads[1].locked
    /\ newCaddyfile = slotReads[1].value
    /\ caddyfile # newCaddyfile

\* C17: the restart flag is set in a process only if that process was
\* launched by a Restart call of another process.
C17_FlagMeansSpawned ==
    /\ isRestart(env) => spawned
    /\ isRestart(childEnv) => childPc # "none"

\* A step of Restart failed.
StepFailed ==
    \/ ret \in {"pipeErr", "forkErr", "encodeErr"}
    \/ closeErr
    \/ readErr
    \/ stopRet = "stopErr"
    \/ startRet = "startErr"

\* C18: whenever a step of Restart failed (creating a pipe, creating the
\* process, writing the payload, closing a pipe end, reading the handshake,
\* stopping or starting servers), Restart returns an error.
C18_NoErrorSwallowed ==
    (pc = "done" /\ StepFailed) => ret # "nil"

\* C19: when writing the payload fails after the child was launched, Restart
\* returns that error at once: the signal pipe is not read, Stop is not called,
\* the servers are untouched, the child is left running, and the parent's write
\* ends of the config pipe and of the signal pipe stay open.
C19_EncodeErrorReturnsAtOnce ==
    (pc = "done" /\ ret = "encodeErr") =>
        /\ steps = <<"launch">>
        /\ ParentUntouched
        /\ childPc \in {"started", "failed"}
        /\ wpipe \in DOMAIN fdTable /\ fdTable[wpipe] = Plain("cfg.w")
        /\ sigwpipe \in DOMAIN fdTable /\ fdTable[sigwpipe] = Plain("sig.w")

C19_Witness ==
    /\ pc = "done"
    /\ ret = "encodeErr"
    /\ childPc = "started"
    /\ Len(servers) = 2
    /\ cfgPipe = <<>>

\* The configuration selected at the start of the call.
Selected == IF arg0.isNil THEN slotReads[1].value ELSE arg0

AfterPrepare == {"L60", "L67", "L75", "L78", "L79", "L83", "L86", "L96", "L100", "L103",
                 "L104", "L105", "L111"}

\* C20: the configuration bytes of the payload are the Body of the
\* configuration selected at the start of the call (the argument, or the one
\* snapshot of the current configuration), whatever the current configuration
\* was replaced by afterwards.
C20_PayloadIsSelectedBody ==
    /\ pc \in AfterPrepare => cdyfileGob.Caddyfile = Body(Selected)
    /\ cfgPipe # <<>> => Decode(cfgPipe).Caddyfile = Body(Selected)
    /\ childPc \in {"decoded", "serving", "acked", "ready"} => childGob.Caddyfile = Body(Selected)

C20_Witness ==
    /\ arg0.isNil
    /\ childPc = "decoded"
    /\ Body(caddyfile) # Body(Selected)
    /\ childGob.Caddyfile = Body(Selected)

ParentHoldsSigW == \E fd \in DOMAIN fdTable : fdTable[fd].kind = "sig.w"

ChildHoldsSigW == \E k \in DOMAIN childFiles : childFiles[k].kind = "sig.w"

\* C15: the read of the signal pipe returns only at end-of-stream or on an
\* error: while a write end is open it does not return without an error.  The
\* parent holds no write end when it reads, so once the payload is written and
\* the child no longer holds descriptor 3 (it closed it or exited), Restart
\* eventually returns.
C15_ReadReturnsOnClose ==
    /\ [](pc = "L104" => ~ParentHoldsSigW)
    /\ [][(pc = "L104" /\ pc' # "L104") => (readErr' \/ ~ChildHoldsSigW)]_vars
    /\ (Posix /\ Did("write") /\ ~ChildHoldsSigW) ~> (pc = "done")

C15_Witness ==
    /\ pc = "L105"
    /\ ~readErr
    /\ childPc = "ready"
    /\ answer = Ack
    /\ ~ChildHoldsSigW

====
